---- MODULE Spec2Model ----
(***************************************************************************)
(* The svelte-bay `init` command: the layout analyzer, the text mutations  *)
(* and the driver that sequences them (src/lib/cli/file-utils.ts and       *)
(* src/lib/cli/init-command.ts), and the vite.config plugin injector.      *)
(*                                                                         *)
(* A document is a sequence of lexical tokens; every token is the literal  *)
(* text it stands for, so a document is its text cut at token boundaries   *)
(* and an offset is a 0-based index into that sequence, used with the      *)
(* semantics of String.prototype.slice.  The regular expressions of the    *)
(* source are patterns over tokens, matched by a backtracking matcher with *)
(* the greedy / lazy priorities of the JavaScript engine.                  *)
(***************************************************************************)
EXTENDS Integers, Sequences, FiniteSets, TLC

(***************************************************************************)
(* Bounds of the model.                                                    *)
(***************************************************************************)
\* number of consecutive runs of `svelte-bay init` on the same project
MaxRuns == 2
\* largest number of symbols other than createBay in an existing import
MaxSyms == 2
\* the Pod components a component tree holds
MaxPods == 2

(***************************************************************************)
(* Tokens.                                                                 *)
(***************************************************************************)
NL == "\n"
TAB == "\t"
SP == " "
Ws == {SP, NL, TAB}

OpenScript == "<script>"
OpenModule == "<script context=\"module\">"
CloseScript == "</script>"
\* every token the pattern /<script(\s+[^>]*)?>/i matches
ScriptOpenTags == {OpenScript, OpenModule}

SQBay == "'svelte-bay'"
DQBay == "\"svelte-bay\""
SQVite == "'svelte-bay/vite'"
DQVite == "\"svelte-bay/vite\""
SQKit == "'@sveltejs/kit/vite'"

(***************************************************************************)
(* Sequences and String.prototype.slice.                                   *)
(***************************************************************************)
Min(S) == CHOOSE x \in S : \A y \in S : x <= y
Max(S) == CHOOSE x \in S : \A y \in S : x >= y

\* an index argument of slice: negative counts from the end, then clamped
SliceIndex(s, i) == IF i < 0 THEN Max({Len(s) + i, 0}) ELSE Min({i, Len(s)})

\* s.slice(from, to)
Slice(s, from, to) ==
    LET a == SliceIndex(s, from)
        b == SliceIndex(s, to)
    IN  IF a >= b THEN << >> ELSE SubSeq(s, a + 1, b)

\* s.slice(from)
SliceFrom(s, from) == Slice(s, from, Len(s))

\* s.trim(), s.trimStart() on tokens
RECURSIVE TrimStart(_)
TrimStart(s) == IF s # << >> /\ Head(s) \in Ws THEN TrimStart(Tail(s)) ELSE s

RECURSIVE TrimEnd(_)
TrimEnd(s) ==
    IF s # << >> /\ s[Len(s)] \in Ws THEN TrimEnd(SubSeq(s, 1, Len(s) - 1)) ELSE s

Trim(s) == TrimEnd(TrimStart(s))

\* s.split(sep) for a one-token separator: the pieces between separators
RECURSIVE Split(_, _)
Split(s, sep) ==
    IF \A i \in 1..Len(s) : s[i] # sep
    THEN << s >>
    ELSE LET i == Min({j \in 1..Len(s) : s[j] = sep})
         IN  << SubSeq(s, 1, i - 1) >> \o Split(SubSeq(s, i + 1, Len(s)), sep)

\* pieces.join(sep)
RECURSIVE Join(_, _)
Join(pieces, sep) ==
    IF pieces = << >> THEN << >>
    ELSE IF Len(pieces) = 1 THEN pieces[1]
    ELSE pieces[1] \o sep \o Join(Tail(pieces), sep)

\* array.filter(p) and array.map(trim) as used on the import list
RECURSIVE FilterNot(_, _)
FilterNot(pieces, x) ==
    IF pieces = << >> THEN << >>
    ELSE (IF Head(pieces) = x THEN << >> ELSE << Head(pieces) >>)
         \o FilterNot(Tail(pieces), x)

MapTrim(pieces) == [i \in 1..Len(pieces) |-> Trim(pieces[i])]

(***************************************************************************)
(* Regular expressions over tokens.                                        *)
(***************************************************************************)
\* one token of S
Tk(S) == [k |-> "one", neg |-> FALSE, set |-> S, min |-> 1, lazy |-> FALSE]
\* S+ and S* (greedy), [^S]+ and [^S]* (greedy), [\s\S]*? (lazy)
Many(S, n) == [k |-> "many", neg |-> FALSE, set |-> S, min |-> n, lazy |-> FALSE]
ManyNot(S, n) == [k |-> "many", neg |-> TRUE, set |-> S, min |-> n, lazy |-> FALSE]
LazyAny == [k |-> "many", neg |-> TRUE, set |-> {}, min |-> 0, lazy |-> TRUE]
\* ^ and $ under the m flag
Bol == [k |-> "bol", neg |-> FALSE, set |-> {}, min |-> 0, lazy |-> FALSE]
Eol == [k |-> "eol", neg |-> FALSE, set |-> {}, min |-> 0, lazy |-> FALSE]

Accepts(e, t) == (t \in e.set) # e.neg

\* the number of consecutive tokens from offset o that e accepts
RECURSIVE RunLen(_, _, _)
RunLen(e, s, o) ==
    IF o < Len(s) /\ Accepts(e, s[o + 1]) THEN 1 + RunLen(e, s, o + 1) ELSE 0

\* the end offset of the match of pat[k..] anchored at offset o, or -1
RECURSIVE MatchAt(_, _, _, _)
MatchAt(pat, k, s, o) ==
    IF k > Len(pat) THEN o
    ELSE LET e == pat[k] IN
         CASE e.k = "one" ->
                IF o < Len(s) /\ Accepts(e, s[o + 1])
                THEN MatchAt(pat, k + 1, s, o + 1) ELSE -1
           [] e.k = "many" ->
                LET ok == {n \in e.min..RunLen(e, s, o) :
                              MatchAt(pat, k + 1, s, o + n) # -1}
                IN  IF ok = {} THEN -1
                    ELSE MatchAt(pat, k + 1, s,
                                 o + (IF e.lazy THEN Min(ok) ELSE Max(ok)))
           [] e.k = "bol" ->
                IF o = 0 \/ s[o] = NL THEN MatchAt(pat, k + 1, s, o) ELSE -1
           [] e.k = "eol" ->
                IF o = Len(s) \/ s[o + 1] = NL
                THEN MatchAt(pat, k + 1, s, o) ELSE -1

\* the offsets at which pat matches in s
MatchStarts(pat, s) == {o \in 0..Len(s) : MatchAt(pat, 1, s, o) # -1}

\* a match that takes the rightmost occurrence instead of the leftmost
MatchLast(pat, s) ==
    IF MatchStarts(pat, s) = {}
    THEN [index |-> -1, end |-> -1]
    ELSE LET o == Max(MatchStarts(pat, s))
         IN  [index |-> o, end |-> MatchAt(pat, 1, s, o)]

\* s.match(pat) without the g flag: the leftmost match, index -1 when none
Match(pat, s) ==
    IF MatchStarts(pat, s) = {}
    THEN [index |-> -1, end |-> -1]
    ELSE LET o == Min(MatchStarts(pat, s))
         IN  [index |-> o, end |-> MatchAt(pat, 1, s, o)]

\* pat.test(s)
Test(pat, s) == MatchStarts(pat, s) # {}

(***************************************************************************)
(* file-utils.ts: the layout analyzer.                                     *)
(***************************************************************************)
\* /<script(\s+[^>]*)?>/i and /<\/script>/i
scriptTagRegex == << Tk(ScriptOpenTags) >>
closeScriptRegex == << Tk({CloseScript}) >>
\* /import\s+{([^}]+)}\s+from\s+['"]svelte-bay['"]/
importRegex ==
    << Tk({"import"}), Many(Ws, 1), Tk({"{"}), ManyNot({"}"}, 1), Tk({"}"}),
       Many(Ws, 1), Tk({"from"}), Many(Ws, 1), Tk({SQBay, DQBay}) >>
\* /createBay\s*\(\s*\)/
createBayCallRegex ==
    << Tk({"createBay"}), Many(Ws, 0), Tk({"("}), Many(Ws, 0), Tk({")"}) >>

\* capture group 1 of importRegex for the match at offset o: the text between
\* the braces
ImportGroup(s, o) ==
    LET gs == MatchAt(SubSeq(importRegex, 1, 3), 1, s, o)
    IN  Slice(s, gs, gs + RunLen(importRegex[4], s, gs))

\* importMatch[1].split(',').map((s) => s.trim())
ImportList(group) == MapTrim(Split(group, ","))

\* imports.includes(x)
Includes(pieces, x) == \E i \in 1..Len(pieces) : pieces[i] = x

\* the report as initialised; an optional field left undefined is -1 here
EmptyAnalysis ==
    [hasScriptTag |-> FALSE,
     scriptTagStart |-> -1, scriptTagEnd |-> -1,
     scriptContentStart |-> -1, scriptContentEnd |-> -1,
     hasCreateBayImport |-> FALSE, hasSvelteBayImport |-> FALSE,
     svelteBayImportStart |-> -1, svelteBayImportEnd |-> -1,
     hasCreateBayCall |-> FALSE]

analyzeSvelteFile(content) ==
    LET scriptTagMatch == Match(scriptTagRegex, content)
        contentStart == scriptTagMatch.index + 1
        closeScriptMatch == Match(closeScriptRegex, SliceFrom(content, contentStart))
        contentEnd == contentStart + closeScriptMatch.index
        scriptContent == Slice(content, contentStart, contentEnd)
        importMatch == Match(importRegex, scriptContent)
        imports == ImportList(ImportGroup(scriptContent, importMatch.index))
        tagged == [EmptyAnalysis EXCEPT
                     !.hasScriptTag = TRUE,
                     !.scriptTagStart = scriptTagMatch.index,
                     !.scriptContentStart = contentStart]
        closed == [tagged EXCEPT
                     !.scriptContentEnd = contentEnd,
                     !.scriptTagEnd = contentEnd + 1,
                     !.hasCreateBayCall = Test(createBayCallRegex, scriptContent)]
        imported == [closed EXCEPT
                     !.hasSvelteBayImport = TRUE,
                     !.svelteBayImportStart = contentStart + importMatch.index,
                     !.svelteBayImportEnd = contentStart + importMatch.end,
                     !.hasCreateBayImport = Includes(imports, << "createBay" >>)]
    IN  IF scriptTagMatch.index = -1 THEN EmptyAnalysis
        ELSE IF closeScriptMatch.index = -1 THEN tagged
        ELSE IF importMatch.index = -1 THEN closed
        ELSE imported

(***************************************************************************)
(* file-utils.ts: the layout mutations.  Each returns the text it writes.  *)
(***************************************************************************)
ImportStatement ==
    << "import", SP, "{", SP, "createBay", SP, "}", SP, "from", SP, SQBay >>
\* `\n\timport { createBay } from 'svelte-bay';`
NewImport == << NL, TAB >> \o ImportStatement \o << ";" >>
\* '\n\n\tcreateBay();\n'
NewCall == << NL, NL, TAB, "createBay", "(", ")", ";", NL >>
\* BayScript without the createBay() line
BayScriptNoCall ==
    << OpenScript, NL,
       TAB, "import", SP, "{", SP, "createBay", SP, "}", SP, "from", SP, SQBay, ";", NL,
       NL,
       CloseScript, NL,
       NL >>

\* the script block createLayoutWithBay and addScriptTagWithBay write
BayScript ==
    << OpenScript, NL,
       TAB, "import", SP, "{", SP, "createBay", SP, "}", SP, "from", SP, SQBay, ";", NL,
       NL,
       TAB, "createBay", "(", ")", ";", NL,
       CloseScript, NL,
       NL >>

createLayoutWithBay == BayScript \o << "<slot />", NL >>

addScriptTagWithBay(content) == BayScript \o content

\* MergedImport with createBay appended to the list instead of put first
MergedImportLast(group) ==
    LET imports == FilterNot(MapTrim(Split(Trim(group), ",")), << "createBay" >>)
    IN  << "import", SP, "{", SP >>
        \o (IF Len(imports) > 0 THEN Join(imports, << ",", SP >>) \o << ",", SP >>
            ELSE << >>)
        \o << "createBay", SP, "}", SP, "from", SP, SQBay >>

\* `import { createBay${imports.length ? ', ' + imports.join(', ') : ''} } from 'svelte-bay'`
MergedImport(group) ==
    LET imports == FilterNot(MapTrim(Split(Trim(group), ",")), << "createBay" >>)
    IN  << "import", SP, "{", SP, "createBay" >>
        \o (IF Len(imports) > 0 THEN << ",", SP >> \o Join(imports, << ",", SP >>)
            ELSE << >>)
        \o << SP, "}", SP, "from", SP, SQBay >>

\* addCreateBayImport whose fresh import goes in front of the script tag
addCreateBayImportBeforeTag(content, a) ==
    IF a.hasSvelteBayImport /\ a.svelteBayImportStart # -1
    THEN LET before == Slice(content, 0, a.svelteBayImportStart)
             importStatement ==
                 Slice(content, a.svelteBayImportStart, a.svelteBayImportEnd)
             after == SliceFrom(content, a.svelteBayImportEnd)
             importMatch == Match(importRegex, importStatement)
         IN  IF importMatch.index # -1
             THEN [written |-> TRUE,
                   content |-> before
                       \o MergedImport(ImportGroup(importStatement, importMatch.index))
                       \o after]
             ELSE [written |-> FALSE, content |-> content]
    ELSE [written |-> TRUE,
          content |-> Slice(content, 0, a.scriptTagStart) \o NewImport
                      \o SliceFrom(content, a.scriptTagStart)]

\* written: whether writeFileSync is reached; content: the text written
addCreateBayImport(content, a) ==
    IF a.hasSvelteBayImport /\ a.svelteBayImportStart # -1
    THEN LET before == Slice(content, 0, a.svelteBayImportStart)
             importStatement ==
                 Slice(content, a.svelteBayImportStart, a.svelteBayImportEnd)
             after == SliceFrom(content, a.svelteBayImportEnd)
             importMatch == Match(importRegex, importStatement)
         IN  IF importMatch.index # -1
             THEN [written |-> TRUE,
                   content |-> before
                       \o MergedImport(ImportGroup(importStatement, importMatch.index))
                       \o after]
             ELSE [written |-> FALSE, content |-> content]
    ELSE [written |-> TRUE,
          content |-> Slice(content, 0, a.scriptContentStart) \o NewImport
                      \o SliceFrom(content, a.scriptContentStart)]

\* addCreateBayCall splicing at the end of the tag instead of the content
addCreateBayCallAfterTag(content, a) ==
    Slice(content, 0, a.scriptTagEnd) \o NewCall \o SliceFrom(content, a.scriptTagEnd)

\* addCreateBayCall splicing at the start of the content instead of its end
addCreateBayCallAtStart(content, a) ==
    Slice(content, 0, a.scriptContentStart) \o NewCall
    \o SliceFrom(content, a.scriptContentStart)

addCreateBayCall(content, a) ==
    Slice(content, 0, a.scriptContentStart)
    \o Slice(content, a.scriptContentStart, a.scriptContentEnd) \o NewCall
    \o SliceFrom(content, a.scriptContentEnd)

(***************************************************************************)
(* file-utils.ts: the vite.config plugin injector.                         *)
(***************************************************************************)
\* /import\s+{[^}]*svelteBay[^}]*}\s+from\s+['"]svelte-bay\/vite['"]/
viteImportRegex ==
    << Tk({"import"}), Many(Ws, 1), Tk({"{"}), ManyNot({"}"}, 0),
       Tk({"svelteBay"}), ManyNot({"}"}, 0), Tk({"}"}), Many(Ws, 1),
       Tk({"from"}), Many(Ws, 1), Tk({SQVite, DQVite}) >>
\* /svelteBay\s*\(\s*\)/
vitePluginRegex ==
    << Tk({"svelteBay"}), Many(Ws, 0), Tk({"("}), Many(Ws, 0), Tk({")"}) >>
\* /import.*from\s+['"]svelte-bay\/vite['"]/
anyViteImportRegex ==
    << Tk({"import"}), ManyNot({NL}, 0), Tk({"from"}), Many(Ws, 1),
       Tk({SQVite, DQVite}) >>
\* /^import\s+.+from\s+.+;$/gm
importLineRegex ==
    << Bol, Tk({"import"}), Many(Ws, 1), ManyNot({NL}, 1), Tk({"from"}),
       Many(Ws, 1), ManyNot({NL}, 1), Tk({";"}), Eol >>
\* /plugins:\s*\[([\s\S]*?)\]/
pluginsRegex ==
    << Tk({"plugins:"}), Many(Ws, 0), Tk({"["}), LazyAny, Tk({"]"}) >>

isVitePluginConfigured(content) ==
    Test(viteImportRegex, content) /\ Test(vitePluginRegex, content)

\* content.matchAll(pat): the end offset of the last of the successive
\* non-overlapping matches found from offset `from` on, or -1
RECURSIVE LastMatchEnd(_, _, _)
LastMatchEnd(pat, s, from) ==
    LET starts == {o \in MatchStarts(pat, s) : o >= from}
    IN  IF starts = {} THEN -1
        ELSE LET end == MatchAt(pat, 1, s, Min(starts))
                 later == LastMatchEnd(pat, s, end)
             IN  IF later = -1 THEN end ELSE later

\* "\nimport { svelteBay } from 'svelte-bay/vite';" without the line break
ViteImport ==
    << "import", SP, "{", SP, "svelteBay", SP, "}", SP, "from", SP, SQVite, ";" >>

\* the first half of addVitePlugin: the text after the import step
WithViteImport(content) ==
    LET insertPos == LastMatchEnd(importLineRegex, content, 0)
    IN  IF Test(anyViteImportRegex, content) THEN content
        ELSE IF insertPos # -1
        THEN Slice(content, 0, insertPos) \o << NL >> \o ViteImport
             \o SliceFrom(content, insertPos)
        ELSE ViteImport \o << NL >> \o content

\* WithVitePlugin that never puts a comma before the invocation
WithVitePluginNoComma(newContent) ==
    LET pluginsMatch == Match(pluginsRegex, newContent)
        pluginsEnd == pluginsMatch.end - 1
    IN  IF pluginsMatch.index = -1 THEN newContent
        ELSE Slice(newContent, 0, pluginsEnd) \o << "svelteBay", "(", ")" >>
             \o SliceFrom(newContent, pluginsEnd)

\* the second half of addVitePlugin: the invocation spliced into the list
WithVitePlugin(newContent) ==
    LET pluginsMatch == Match(pluginsRegex, newContent)
        \* pluginsMatch.index + pluginsMatch[0].indexOf('[') + 1
        pluginsStart == MatchAt(SubSeq(pluginsRegex, 1, 3), 1, newContent,
                                pluginsMatch.index)
        \* pluginsMatch.index + pluginsMatch[0].length - 1
        pluginsEnd == pluginsMatch.end - 1
        trimmedPlugins == Trim(Slice(newContent, pluginsStart, pluginsEnd))
        \* trimmedPlugins && trimmedPlugins.lastIndexOf(')') !== -1
        comma == /\ trimmedPlugins # << >>
                 /\ \E i \in 1..Len(trimmedPlugins) : trimmedPlugins[i] = ")"
        pluginToAdd == (IF comma THEN << ",", SP >> ELSE << >>)
                       \o << "svelteBay", "(", ")" >>
    IN  IF pluginsMatch.index = -1 THEN newContent
        ELSE Slice(newContent, 0, pluginsStart)
             \o Slice(newContent, pluginsStart, pluginsEnd)
             \o pluginToAdd
             \o SliceFrom(newContent, pluginsEnd)

\* the text addVitePlugin writes
addVitePlugin(content) == WithVitePlugin(WithViteImport(content))

(***************************************************************************)
(* The projects the command is run on: the layout and the vite.config.     *)
(***************************************************************************)
Others == << "Pod", "Portal", "getBayState", "PortalName" >>

\* how a layout is put together; script = "missing": there is no layout file;
\* imp2: a second import from 'svelte-bay' in the instance script; script2: a
\* second instance script after the first
ShapeSpace ==
    [mod : {"none", "before", "after"},
     script : {"missing", "none", "closed", "unclosed"},
     imp : BOOLEAN, syms : 0..MaxSyms,
     cb : {"absent", "first", "last"}, quote : {SQBay, DQBay},
     call : BOOLEAN, rest : BOOLEAN,
     imp2 : {"none", "bay"}, script2 : {"none", "plain", "bay"}]

WellShaped(sh) ==
    /\ sh.script = "missing" => sh.mod = "none" /\ ~sh.rest
    /\ sh.script \in {"missing", "none"} => ~sh.imp /\ ~sh.call
    /\ ~sh.imp => sh.syms = 0 /\ sh.cb = "absent" /\ sh.quote = SQBay
    /\ sh.imp2 # "none" => sh.imp
    /\ sh.script2 # "none" => sh.script = "closed"

\* the layouts with at most one instance script and one import
Shapes ==
    { sh \in ShapeSpace :
        WellShaped(sh) /\ sh.imp2 = "none" /\ sh.script2 = "none" }

\* the layouts with a second import or a second instance script
MultiShapes ==
    { sh \in ShapeSpace :
        /\ WellShaped(sh)
        /\ sh.imp2 # "none" \/ sh.script2 # "none"
        /\ sh.mod # "before" /\ sh.syms <= 1 /\ sh.cb # "last"
        /\ sh.quote = SQBay }

\* the layouts the runs on every vite.config start from
FewShapes ==
    { sh \in Shapes : /\ sh.mod = "none" /\ ~sh.rest /\ sh.syms = 0
                      /\ sh.script # "unclosed" /\ sh.cb # "last"
                      /\ sh.quote = SQBay }

ModuleScript ==
    << OpenModule, NL, TAB, "export const prerender = true;", NL, CloseScript, NL >>

\* the symbols an import of the shape names, in order
ShapeSymbols(sh) ==
    (IF sh.cb = "first" THEN << "createBay" >> ELSE << >>)
    \o SubSeq(Others, 1, sh.syms)
    \o (IF sh.cb = "last" THEN << "createBay" >> ELSE << >>)

Singletons(syms) == [i \in 1..Len(syms) |-> << syms[i] >>]

\* `import { A, B } from 'svelte-bay'`
ImportOf(syms, quote) ==
    << "import", SP, "{", SP >> \o Join(Singletons(syms), << ",", SP >>)
    \o << SP, "}", SP, "from", SP, quote >>

CallLine == << TAB, "createBay", "(", ")", ";", NL >>

ScriptBody(sh) ==
    << NL >>
    \o (IF sh.imp
        THEN << TAB >> \o ImportOf(ShapeSymbols(sh), sh.quote) \o << ";", NL >>
        ELSE << >>)
    \o (IF sh.imp2 = "bay"
        THEN << TAB >> \o ImportOf(<< "createBay" >>, SQBay) \o << ";", NL >>
        ELSE << >>)
    \o (IF sh.call THEN CallLine ELSE << >>)

InstanceScript(sh) ==
    CASE sh.script \in {"missing", "none"} -> << >>
      [] sh.script = "closed" -> << OpenScript >> \o ScriptBody(sh) \o << CloseScript, NL >>
      [] sh.script = "unclosed" -> << OpenScript >> \o ScriptBody(sh)

SecondScript(sh) ==
    CASE sh.script2 = "none" -> << >>
      [] sh.script2 = "plain" -> << OpenScript, NL, CloseScript, NL >>
      [] sh.script2 = "bay" -> BayScript

Document(sh) ==
    (IF sh.mod = "before" THEN ModuleScript ELSE << >>)
    \o InstanceScript(sh)
    \o SecondScript(sh)
    \o (IF sh.mod = "after" THEN ModuleScript ELSE << >>)
    \o (IF sh.rest THEN << "<rest/>" >> ELSE << >>)

KitImport ==
    << "import", SP, "{", SP, "sveltekit", SP, "}", SP, "from", SP, SQKit, ";", NL >>

ConfigWith(list) ==
    << "export default {", NL, TAB, "plugins:", SP, "[" >> \o list
    \o << "]", NL, "}", NL >>

\* "missing": there is no vite.config
ViteKinds ==
    {"missing", "empty", "two", "kit", "configured", "importOnly", "noList",
     "bare", "trailing", "pluginOnly"}
FewViteKinds == {"missing", "kit", "configured"}

ViteConfig(kind) ==
    CASE kind = "missing" -> << >>
      [] kind = "empty" -> ConfigWith(<< >>)
      [] kind = "two" ->
            KitImport \o ConfigWith(<< "a", "(", ")", ",", SP, "b", "(", ")" >>)
      [] kind = "kit" -> KitImport \o ConfigWith(<< "sveltekit", "(", ")" >>)
      [] kind = "configured" ->
            KitImport \o ViteImport \o << NL >>
            \o ConfigWith(<< "sveltekit", "(", ")", ",", SP, "svelteBay", "(", ")" >>)
      [] kind = "importOnly" ->
            KitImport \o ViteImport \o << NL >> \o ConfigWith(<< "sveltekit", "(", ")" >>)
      [] kind = "noList" -> KitImport \o << "export default {", NL, "}", NL >>
      [] kind = "bare" -> KitImport \o ConfigWith(<< "a" >>)
      [] kind = "trailing" -> KitImport \o ConfigWith(<< "a", "(", ")", ",", SP >>)
      [] kind = "pluginOnly" ->
            KitImport
            \o ConfigWith(<< "sveltekit", "(", ")", ",", SP, "svelteBay", "(", ")" >>)

File(text) == [exists |-> TRUE, text |-> text]
NoFile == [exists |-> FALSE, text |-> << >>]

(***************************************************************************)
(* init-command.ts: initCommand.                                           *)
(***************************************************************************)
VARIABLES
    pc,              \* where initCommand stands
    run,             \* the number of the current run
    layout,          \* +layout.svelte
    vite,            \* vite.config.ts
    installed,       \* package.json lists svelte-bay
    analysis,        \* const analysis (line 143)
    updatedAnalysis, \* const updatedAnalysis (line 203)
    layoutWrites,    \* writes of the layout file in this run
    viteWrites,      \* writes of the vite config in this run
    declined,        \* the prompt aborted or declined in this run
    shape,           \* how the layout of the first run was put together
    viteKind,        \* which vite.config the first run found
    startLayout,     \* the layout when this run started
    prevDone,        \* the previous run returned normally
    viteReport       \* what this run printed about the Vite plugin

\* the runtime library: the bay of one component tree, its Pods and Portals
VARIABLES
    context,         \* whether PORTAL_KEY is set in the tree (setContext)
    content,         \* state.content: portal name -> list of snippets
    pods,            \* the Pod components of the tree
    registered,      \* the Pods registered now, in the order they registered
    got              \* the outcome of the last getBayState call

bayVars == << context, content, pods, registered, got >>

vars ==
    << pc, run, layout, vite, installed, analysis, updatedAnalysis, layoutWrites,
       viteWrites, declined, shape, viteKind, startLayout, prevDone, viteReport,
       bayVars >>

\* the Pods and the portal names of the component tree
PodIds == 1..MaxPods
PortalNames == {"X", "Y"}

\* content: {} of createBay; a key that was never assigned is not present
EmptyContent == [n \in PortalNames |-> [present |-> FALSE, list |-> << >>]]

\* a Pod that is not mounted
\* to: the prop; target: the key its effect registered under; from: the key
\* the last run of its effect cleaned up; dirty: the effect is scheduled
NoPod ==
    [mounted |-> FALSE, to |-> "none", target |-> "none", from |-> "none",
     dirty |-> FALSE]

\* no getBayState call was made yet
NotCalled == [result |-> "none", hadBay |-> FALSE, message |-> ""]

\* the component tree before its root layout has run
NoBay ==
    /\ context = FALSE
    /\ content = EmptyContent
    /\ pods = [p \in PodIds |-> NoPod]
    /\ registered = << >>
    /\ got = NotCalled

PackageManagers == {"npm", "bun", "pnpm", "yarn"}
Answers == {"yes", "no", "abort"}
Terminal == {"done", "exit0", "exit1", "killed"}

InitWith(shapes, kinds) ==
    /\ pc = "start"
    /\ run = 1
    /\ shape \in shapes
    /\ layout = IF shape.script = "missing" THEN NoFile ELSE File(Document(shape))
    /\ viteKind \in kinds
    /\ vite = IF viteKind = "missing" THEN NoFile ELSE File(ViteConfig(viteKind))
    /\ installed \in BOOLEAN
    /\ analysis = EmptyAnalysis
    /\ updatedAnalysis = EmptyAnalysis
    /\ layoutWrites = 0
    /\ viteWrites = 0
    /\ declined = "none"
    /\ startLayout = layout
    /\ prevDone = FALSE
    /\ viteReport = "none"
    /\ NoBay

\* every layout, on a few vite.configs
Init == InitWith(Shapes, FewViteKinds)
\* a few layouts, on every vite.config
InitVite == InitWith(FewShapes, ViteKinds)
\* the layouts with several scripts or imports, and a few plain ones
InitMulti == InitWith(FewShapes \cup MultiShapes, FewViteKinds)

\* lines 27-58: findSvelteKitRoot and isSvelteBayInstalled
FindProject ==
    /\ pc = "start"
    /\ \E projectRoot \in BOOLEAN :
          pc' = IF ~projectRoot THEN "exit1"
                ELSE IF installed THEN "findLayout" ELSE "pmPrompt"
    /\ UNCHANGED << run, layout, vite, installed, analysis, updatedAnalysis,
                    layoutWrites, viteWrites, declined, shape, viteKind,
                    startLayout, prevDone, viteReport,
                    bayVars >>

\* lines 60-80: the package manager prompt
PromptPackageManager ==
    /\ pc = "pmPrompt"
    /\ \E packageManager \in PackageManagers \cup {"abort"} :
          IF packageManager = "abort"
          THEN pc' = "exit0" /\ declined' = "packageManager"
          ELSE pc' = "installing" /\ declined' = declined
    /\ UNCHANGED << run, layout, vite, installed, analysis, updatedAnalysis,
                    layoutWrites, viteWrites, shape, viteKind, startLayout,
                    prevDone, viteReport,
                    bayVars >>

\* RunInstall that goes on to the layout when the install command fails
RunInstallIgnoreFailure ==
    /\ pc = "installing"
    /\ \E code \in {0, 1} :
          /\ pc' = "findLayout"
          /\ installed' = IF code = 0 THEN TRUE ELSE installed
    /\ UNCHANGED << run, layout, vite, analysis, updatedAnalysis, layoutWrites,
                    viteWrites, declined, shape, viteKind, startLayout,
                    prevDone, viteReport,
                    bayVars >>

\* lines 82-89 and runCommand: the install command exits with `code`
RunInstall ==
    /\ pc = "installing"
    /\ \E code \in {0, 1} :
          IF code = 0
          THEN pc' = "findLayout" /\ installed' = TRUE
          ELSE pc' = "exit1" /\ installed' = installed
    /\ UNCHANGED << run, layout, vite, analysis, updatedAnalysis, layoutWrites,
                    viteWrites, declined, shape, viteKind, startLayout,
                    prevDone, viteReport,
                    bayVars >>

\* Decide without the `already set up` return of lines 178-185
DecideNoShortcut(a) ==
    IF ~a.hasScriptTag THEN "scriptPrompt"
    ELSE IF ~a.hasCreateBayImport THEN "addImport"
    ELSE "addCall"

\* Decide that adds a missing call before it looks at the import
DecideCallFirst(a) ==
    IF ~a.hasScriptTag THEN "scriptPrompt"
    ELSE IF a.hasCreateBayImport /\ a.hasCreateBayCall THEN "done"
    ELSE IF ~a.hasCreateBayCall THEN "addCall"
    ELSE "addImport"

\* Decide that takes a layout without a script tag for one already set up
DecideNoBlockSatisfied(a) ==
    IF ~a.hasScriptTag THEN "done"
    ELSE IF a.hasCreateBayImport /\ a.hasCreateBayCall THEN "done"
    ELSE IF ~a.hasCreateBayImport THEN "addImport"
    ELSE "addCall"

\* lines 146-216: what initCommand does with the first report
Decide(a) ==
    IF ~a.hasScriptTag THEN "scriptPrompt"
    ELSE IF a.hasCreateBayImport /\ a.hasCreateBayCall THEN "done"
    ELSE IF ~a.hasCreateBayImport THEN "addImport"
    ELSE "addCall"

\* lines 99-102 and 139-185: findRootLayout, the first analysis, the decision
FindLayout ==
    /\ pc = "findLayout"
    /\ IF ~layout.exists
       THEN pc' = "createPrompt" /\ analysis' = analysis
       ELSE /\ analysis' = analyzeSvelteFile(layout.text)
            /\ pc' = Decide(analysis')
    /\ UNCHANGED << run, layout, vite, installed, updatedAnalysis, layoutWrites,
                    viteWrites, declined, shape, viteKind, startLayout,
                    prevDone, viteReport,
                    bayVars >>

\* lines 104-136: the create-layout prompt; `ok` is whether mkdirSync and
\* writeFileSync succeed
PromptCreateLayout ==
    /\ pc = "createPrompt"
    /\ \E createLayout \in Answers, ok \in BOOLEAN :
          IF createLayout # "yes"
          THEN /\ pc' = "exit0"
               /\ declined' = "createLayout"
               /\ UNCHANGED << layout, layoutWrites >>
          ELSE IF ok
          THEN /\ pc' = "done"
               /\ layout' = File(createLayoutWithBay)
               /\ layoutWrites' = layoutWrites + 1
               /\ declined' = declined
          ELSE /\ pc' = "exit1"
               /\ UNCHANGED << layout, layoutWrites, declined >>
    /\ UNCHANGED << run, vite, installed, analysis, updatedAnalysis, viteWrites,
                    shape, viteKind, startLayout, prevDone, viteReport,
                    bayVars >>

\* AfterAddScript without the `=== undefined` branch of lines 162-164
AfterAddScriptNoAbort(addScript) ==
    IF addScript = "no" THEN "exit0" ELSE "done"

\* lines 162-175: where the answer to the add-script prompt leads
AfterAddScript(addScript) ==
    IF addScript = "abort" THEN "exit1"
    ELSE IF addScript = "no" THEN "exit0"
    ELSE "done"

\* lines 153-175: the add-script prompt
PromptAddScript ==
    /\ pc = "scriptPrompt"
    /\ \E addScript \in Answers :
          /\ pc' = AfterAddScript(addScript)
          /\ declined' = IF addScript # "yes" THEN "addScript" ELSE declined
          /\ IF pc' = "done"
             THEN /\ layout' = File(addScriptTagWithBay(layout.text))
                  /\ layoutWrites' = layoutWrites + 1
             ELSE UNCHANGED << layout, layoutWrites >>
    /\ UNCHANGED << run, vite, installed, analysis, updatedAnalysis, viteWrites,
                    shape, viteKind, startLayout, prevDone, viteReport,
                    bayVars >>

\* AddImport that goes on to add the call without looking at the second report
AddImportNoReanalysis ==
    /\ pc = "addImport"
    /\ LET w == addCreateBayImport(layout.text, analysis)
           u == analyzeSvelteFile(w.content)
       IN  /\ layout' = File(w.content)
           /\ layoutWrites' = layoutWrites + (IF w.written THEN 1 ELSE 0)
           /\ updatedAnalysis' = u
           /\ pc' = "addCallAfterImport"
    /\ UNCHANGED << run, vite, installed, analysis, viteWrites, declined, shape,
                    viteKind, startLayout, prevDone, viteReport,
                    bayVars >>

\* lines 188-206: addCreateBayImport, then the second analysis
AddImport ==
    /\ pc = "addImport"
    /\ LET w == addCreateBayImport(layout.text, analysis)
           u == analyzeSvelteFile(w.content)
       IN  /\ layout' = File(w.content)
           /\ layoutWrites' = layoutWrites + (IF w.written THEN 1 ELSE 0)
           /\ updatedAnalysis' = u
           /\ pc' = IF ~u.hasCreateBayCall THEN "addCallAfterImport" ELSE "vite"
    /\ UNCHANGED << run, vite, installed, analysis, viteWrites, declined, shape,
                    viteKind, startLayout, prevDone, viteReport,
                    bayVars >>

\* AddCallAfterImport that passes the first report on to addCreateBayCall
AddCallWithFirstReport ==
    /\ pc = "addCallAfterImport"
    /\ layout' = File(addCreateBayCall(layout.text, analysis))
    /\ layoutWrites' = layoutWrites + 1
    /\ pc' = "vite"
    /\ UNCHANGED << run, vite, installed, analysis, updatedAnalysis, viteWrites,
                    declined, shape, viteKind, startLayout, prevDone, viteReport,
                    bayVars >>

\* lines 206-210: addCreateBayCall with the second report
AddCallAfterImport ==
    /\ pc = "addCallAfterImport"
    /\ layout' = File(addCreateBayCall(layout.text, updatedAnalysis))
    /\ layoutWrites' = layoutWrites + 1
    /\ pc' = "vite"
    /\ UNCHANGED << run, vite, installed, analysis, updatedAnalysis, viteWrites,
                    declined, shape, viteKind, startLayout, prevDone, viteReport,
                    bayVars >>

\* lines 211-216: addCreateBayCall with the first report
AddCall ==
    /\ pc = "addCall"
    /\ layout' = File(addCreateBayCall(layout.text, analysis))
    /\ layoutWrites' = layoutWrites + 1
    /\ pc' = "vite"
    /\ UNCHANGED << run, vite, installed, analysis, updatedAnalysis, viteWrites,
                    declined, shape, viteKind, startLayout, prevDone, viteReport,
                    bayVars >>

\* FindVite that offers the plugin for every vite.config it finds
FindViteAlwaysPrompt ==
    /\ pc = "vite"
    /\ pc' = IF vite.exists THEN "vitePrompt" ELSE "done"
    /\ viteReport' = viteReport
    /\ UNCHANGED << run, layout, vite, installed, analysis, updatedAnalysis,
                    layoutWrites, viteWrites, declined, shape, viteKind,
                    startLayout, prevDone,
                    bayVars >>

\* lines 219-224 and 249-256: findViteConfig and isVitePluginConfigured
FindVite ==
    /\ pc = "vite"
    /\ pc' = IF vite.exists /\ ~isVitePluginConfigured(vite.text)
             THEN "vitePrompt" ELSE "done"
    /\ viteReport' = IF vite.exists /\ isVitePluginConfigured(vite.text)
                     THEN "configured" ELSE viteReport
    /\ UNCHANGED << run, layout, vite, installed, analysis, updatedAnalysis,
                    layoutWrites, viteWrites, declined, shape, viteKind,
                    startLayout, prevDone,
                    bayVars >>

\* lines 231-256: the Vite plugin prompt; `ok` is whether addVitePlugin
\* returns without throwing
PromptVite ==
    /\ pc = "vitePrompt"
    /\ \E addPlugin \in Answers, ok \in BOOLEAN :
          IF addPlugin # "yes"
          THEN /\ declined' = "addPlugin"
               /\ UNCHANGED << vite, viteWrites, viteReport >>
          ELSE IF ok
          THEN /\ vite' = File(addVitePlugin(vite.text))
               /\ viteWrites' = viteWrites + 1
               /\ declined' = declined
               /\ viteReport' = "added"
          ELSE /\ viteReport' = "manual"
               /\ UNCHANGED << vite, viteWrites, declined >>
    /\ pc' = "done"
    /\ UNCHANGED << run, layout, installed, analysis, updatedAnalysis,
                    layoutWrites, shape, viteKind, startLayout, prevDone,
                    bayVars >>

\* the process is stopped between two steps of initCommand: the files stay as
\* the last writeFileSync left them
Kill ==
    /\ pc \notin Terminal
    /\ pc # "runtime"
    /\ pc' = "killed"
    /\ UNCHANGED << run, layout, vite, installed, analysis, updatedAnalysis,
                    layoutWrites, viteWrites, declined, shape, viteKind,
                    startLayout, prevDone, viteReport,
                    bayVars >>

\* the user runs `svelte-bay init` again on the project as the last run left it
RunAgain ==
    /\ pc \in Terminal
    /\ run < MaxRuns
    /\ run' = run + 1
    /\ pc' = "start"
    /\ analysis' = EmptyAnalysis
    /\ updatedAnalysis' = EmptyAnalysis
    /\ layoutWrites' = 0
    /\ viteWrites' = 0
    /\ declined' = "none"
    /\ startLayout' = layout
    /\ prevDone' = (pc = "done")
    /\ viteReport' = "none"
    /\ UNCHANGED << layout, vite, installed, shape, viteKind,
                    bayVars >>

Next ==
    \/ FindProject
    \/ PromptPackageManager
    \/ RunInstall
    \/ FindLayout
    \/ PromptCreateLayout
    \/ PromptAddScript
    \/ AddImport
    \/ AddCallAfterImport
    \/ AddCall
    \/ FindVite
    \/ PromptVite
    \/ RunAgain

Spec == Init /\ [][Next]_vars
SpecVite == InitVite /\ [][Next]_vars
SpecMulti == InitMulti /\ [][Next]_vars

\* the runs of initCommand when the process may be stopped between two steps
NextKill == Next \/ Kill
SpecKill == Init /\ [][NextKill]_vars

(***************************************************************************)
(* The runtime library: createBay and getBayState (appended to              *)
(* init-command.ts), and the Pod and Portal components that use them.       *)
(***************************************************************************)
NotFoundMessage ==
    "Bay state not found. Make sure to call createBay() in your root layout."

\* getBayState that hands back whatever getContext returned
getBayStateNoThrow == [result |-> "state", hadBay |-> context, message |-> ""]

\* getBayState: the state of the context, or the error thrown without one
getBayState ==
    IF ~context
    THEN [result |-> "error", hadBay |-> context, message |-> NotFoundMessage]
    ELSE [result |-> "state", hadBay |-> context, message |-> ""]

\* a list without the snippet of Pod p
Without(list, p) == SelectSeq(list, LAMBDA q : q # p)

\* Register that puts the snippet at the head of the list
RegisterFirst(c, name, p) ==
    [c EXCEPT ![name] = [present |-> TRUE, list |-> << p >> \o c[name].list]]

\* a Pod registers its children snippet under the key `name`
Register(c, name, p) ==
    [c EXCEPT ![name] = [present |-> TRUE, list |-> Append(c[name].list, p)]]

\* a cleanup that leaves the snippet where it is
UnregisterNothing(c, name, p) == c

\* the cleanup of a Pod's effect: its snippet leaves the list it was put in
Unregister(c, name, p) ==
    IF name = "none" THEN c
    ELSE [c EXCEPT ![name] = [present |-> TRUE, list |-> Without(c[name].list, p)]]

\* a Portal that renders the snippets of every list
RenderAll(name) ==
    LET both == content["X"].list \o content["Y"].list
    IN  IF \E n \in PortalNames : content[n].present THEN both ELSE << >>

\* what the Portal named `name` renders: the snippets registered to its name
Render(name) ==
    IF content[name].present THEN content[name].list ELSE << >>

\* the variables of initCommand, which the runtime library never touches
cliVars ==
    << pc, run, layout, vite, installed, analysis, updatedAnalysis, layoutWrites,
       viteWrites, declined, shape, viteKind, startLayout, prevDone, viteReport >>

\* the root layout runs createBay()
CreateBay ==
    /\ pc = "runtime"
    /\ ~context
    /\ context' = TRUE
    /\ content' = EmptyContent
    /\ UNCHANGED << pods, registered, got >>
    /\ UNCHANGED cliVars

\* a component of the tree calls getBayState()
CallGetBayState ==
    /\ pc = "runtime"
    /\ got' = getBayState
    /\ UNCHANGED << context, content, pods, registered >>
    /\ UNCHANGED cliVars

\* a Pod is mounted with `to`: it looks the bay up and schedules its effect
MountPod ==
    /\ pc = "runtime"
    /\ \E p \in PodIds, to \in PortalNames :
          /\ ~pods[p].mounted
          /\ got' = getBayState
          /\ pods' = IF got'.result = "error" THEN pods
                     ELSE [pods EXCEPT ![p] = [NoPod EXCEPT !.mounted = TRUE,
                                                            !.to = to,
                                                            !.dirty = TRUE]]
    /\ UNCHANGED << context, content, registered >>
    /\ UNCHANGED cliVars

\* the `to` prop of a mounted Pod changes
SetTo ==
    /\ pc = "runtime"
    /\ \E p \in PodIds, to \in PortalNames :
          /\ pods[p].mounted
          /\ to # pods[p].to
          /\ pods' = [pods EXCEPT ![p].to = to, ![p].dirty = TRUE]
    /\ UNCHANGED << context, content, registered, got >>
    /\ UNCHANGED cliVars

\* the effect of a Pod runs: the cleanup of its last run, then the registration
RunEffect ==
    /\ pc = "runtime"
    /\ \E p \in PodIds :
          /\ pods[p].mounted /\ pods[p].dirty
          /\ content' = Register(Unregister(content, pods[p].target, p), pods[p].to, p)
          /\ registered' = Append(Without(registered, p), p)
          /\ pods' = [pods EXCEPT ![p].target = pods[p].to,
                                  ![p].from = pods[p].target,
                                  ![p].dirty = FALSE]
    /\ UNCHANGED << context, got >>
    /\ UNCHANGED cliVars

\* a Pod is destroyed: the cleanup of its effect runs
UnmountPod ==
    /\ pc = "runtime"
    /\ \E p \in PodIds :
          /\ pods[p].mounted
          /\ content' = Unregister(content, pods[p].target, p)
          /\ registered' = Without(registered, p)
          /\ pods' = [pods EXCEPT ![p] = NoPod]
    /\ UNCHANGED << context, got >>
    /\ UNCHANGED cliVars

\* a component tree in the browser; no project is being set up
InitBay ==
    /\ pc = "runtime"
    /\ run = 1
    /\ shape = [mod |-> "none", script |-> "missing", imp |-> FALSE, syms |-> 0,
                cb |-> "absent", quote |-> SQBay, call |-> FALSE, rest |-> FALSE,
                imp2 |-> "none", script2 |-> "none"]
    /\ layout = NoFile
    /\ viteKind = "missing"
    /\ vite = NoFile
    /\ installed = TRUE
    /\ analysis = EmptyAnalysis
    /\ updatedAnalysis = EmptyAnalysis
    /\ layoutWrites = 0
    /\ viteWrites = 0
    /\ declined = "none"
    /\ startLayout = layout
    /\ prevDone = FALSE
    /\ viteReport = "none"
    /\ NoBay

NextBay ==
    \/ CreateBay
    \/ CallGetBayState
    \/ MountPod
    \/ SetTo
    \/ RunEffect
    \/ UnmountPod

SpecBay == InitBay /\ [][NextBay]_vars

(***************************************************************************)
(* Properties.                                                             *)
(***************************************************************************)
\* the number of matches of pat in s, counted by their start offsets
Count(pat, s) == Cardinality(MatchStarts(pat, s))

\* s occurs in text at offset o
OccursAt(s, text, o) == Slice(text, o, o + Len(s)) = s

AllSetUp(a) == a.hasScriptTag /\ a.hasCreateBayImport /\ a.hasCreateBayCall

\* C1: idempotence of the layout convergence: a run on the layout that a
\* completed run left behind ends with the layout unchanged, whatever the
\* shape of the layout the first run started from.
C1_Idempotent ==
    (run > 1 /\ prevDone /\ pc = "done") => layout = startLayout

\* C2: no-op on already-satisfied input: when the first report has
\* hasScriptTag, hasCreateBayImport and hasCreateBayCall all true, the run
\* returns with zero writes and the layout is what it was when the run started.
C2_NoOpWhenSatisfied ==
    AllSetUp(analysis) =>
        /\ pc = "done"
        /\ layoutWrites = 0
        /\ viteWrites = 0
        /\ layout = startLayout

C2_Witness ==
    /\ AllSetUp(analysis)
    /\ pc = "done"
    /\ run = 1
    /\ shape.mod = "after"

\* C3: secondary-block non-interference: for a layout holding only a module
\* script, the completed run leaves the module script's text where it was,
\* unchanged, and the new instance script starts after the module script's end.
C3_ModuleScriptUntouched ==
    (run = 1 /\ pc = "done" /\ shape.script = "none" /\ shape.mod # "none") =>
        /\ OccursAt(ModuleScript, layout.text, 0)
        /\ \E o \in Len(ModuleScript)..Len(layout.text) :
              OccursAt(BayScript, layout.text, o)

\* where the instance script of a layout of shape sh starts, and where the
\* import of its first line starts
InstanceStart(sh) == IF sh.mod = "before" THEN Len(ModuleScript) ELSE 0
ImportStart(sh) == InstanceStart(sh) + Len(<< OpenScript, NL, TAB >>)

\* the first report is that of the instance script of the shape, and leads to
\* the merge branch of addCreateBayImport
MergeCase ==
    /\ run = 1
    /\ shape.imp /\ shape.cb = "absent" /\ shape.syms >= 1
    /\ analysis.scriptTagStart = InstanceStart(shape)
    /\ analysis.hasSvelteBayImport /\ ~analysis.hasCreateBayImport

C5_CreatedBlockComplete ==
    (pc = "done" /\ layoutWrites = 1 /\ (~startLayout.exists \/ ~analysis.hasScriptTag)) =>
        LET a == analyzeSvelteFile(layout.text)
        IN  AllSetUp(a) /\ a.hasSvelteBayImport

C5_Witness ==
    /\ pc = "done"
    /\ layoutWrites = 1
    /\ run = 1
    /\ startLayout = File(<< >>)

\* the layout "<script>\n</script>\n<rest/>"
ScenarioA ==
    [mod |-> "none", script |-> "closed", imp |-> FALSE, syms |-> 0,
     cb |-> "absent", quote |-> SQBay, call |-> FALSE, rest |-> TRUE,
     imp2 |-> "none", script2 |-> "none"]

\* C6: scenario A: from "<script>\n</script>\n<rest/>" the completed run
\* leaves one script whose content holds exactly one import from 'svelte-bay',
\* naming createBay, and exactly one createBay() call, followed by the
\* original "\n<rest/>".
C6_ScenarioA ==
    (run = 1 /\ shape = ScenarioA /\ pc = "done") =>
        LET text == layout.text
            inner == Slice(text, 1, Len(text) - 3)
        IN  /\ Slice(text, 0, 1) = << OpenScript >>
            /\ SliceFrom(text, Len(text) - 3) = << CloseScript, NL, "<rest/>" >>
            /\ Count(closeScriptRegex, inner) = 0
            /\ Count(importRegex, inner) = 1
            /\ Includes(ImportList(ImportGroup(inner, Match(importRegex, inner).index)),
                        << "createBay" >>)
            /\ Count(createBayCallRegex, inner) = 1

C6_Witness ==
    /\ run = 1
    /\ shape = ScenarioA
    /\ pc = "done"
    /\ layoutWrites = 2

\* C7: scenario B: when the instance script holds an import from 'svelte-bay'
\* that does not name createBay, and a createBay() call, the completed run has
\* merged createBay into that import, createBay first, and the layout holds as
\* many createBay() calls as before.
C7_ScenarioB ==
    (run = 1 /\ pc = "done" /\ shape.script = "closed"
       /\ shape.imp /\ shape.cb = "absent" /\ shape.syms >= 1 /\ shape.call) =>
        /\ Count(createBayCallRegex, layout.text)
             = Count(createBayCallRegex, startLayout.text)
        /\ OccursAt(ImportOf(<< "createBay" >> \o SubSeq(Others, 1, shape.syms), SQBay),
                    layout.text, ImportStart(shape))

\* C8: scenario C: addVitePlugin on `plugins: []` without an import yields
\* one import of svelteBay from 'svelte-bay/vite' and `plugins: [svelteBay()]`;
\* on `plugins: [a(), b()]` it yields `plugins: [a(), b(), svelteBay()]`.
C8_ScenarioC ==
    (run = 1 /\ viteWrites = 1) =>
        /\ viteKind = "empty" =>
              /\ vite.text = ViteImport \o << NL >>
                             \o ConfigWith(<< "svelteBay", "(", ")" >>)
              /\ Count(anyViteImportRegex, vite.text) = 1
        /\ viteKind = "two" =>
              /\ vite.text = KitImport \o ViteImport \o << NL >>
                             \o ConfigWith(<< "a", "(", ")", ",", SP, "b", "(", ")",
                                              ",", SP, "svelteBay", "(", ")" >>)
              /\ Count(anyViteImportRegex, vite.text) = 1

C8_Witness ==
    /\ run = 1
    /\ viteWrites = 1
    /\ viteKind = "two"

\* a report that is either filled for a construct or says it is absent
WholeReport(a) ==
    /\ a.hasScriptTag =>
          /\ a.scriptTagStart # -1 /\ a.scriptContentStart # -1
          /\ a.scriptContentEnd # -1 /\ a.scriptTagEnd # -1
    /\ ~a.hasScriptTag => a = EmptyAnalysis
    /\ a.hasSvelteBayImport <=>
          (a.svelteBayImportStart # -1 /\ a.svelteBayImportEnd # -1)

\* C9: the analyzer is total and all-or-nothing: every report it returns has,
\* for each construct, either the fact true with its offsets or the fact
\* false with the offsets absent, never a partially filled entry.
C9_NoPartialReport == WholeReport(analysis) /\ WholeReport(updatedAnalysis)

\* C10 as stated: in a run in which any prompt was aborted or declined, no
\* write of the layout or of the vite.config is made, before or after it.
C10_NoWriteOnceDeclined ==
    declined # "none" => layoutWrites = 0 /\ viteWrites = 0

\* C10, amended: a run in which the package-manager, create-layout or
\* add-script prompt was aborted or declined exits with no write of the layout
\* or the vite.config; a run in which the Vite plugin prompt was aborted or
\* declined makes no write of the vite.config (the layout edits made before
\* that prompt stay).
C10_Cancellation ==
    /\ declined \in {"packageManager", "createLayout", "addScript"} =>
          /\ pc \in {"exit0", "exit1"}
          /\ layoutWrites = 0 /\ viteWrites = 0
          /\ layout = startLayout
    /\ declined = "addPlugin" => viteWrites = 0

C10_Witness ==
    /\ declined = "addPlugin"
    /\ layoutWrites = 2
    /\ viteWrites = 0
    /\ pc = "done"

\* the first report of the run has been made from a layout found on disk
Analysed ==
    /\ startLayout.exists
    /\ \/ pc \in {"scriptPrompt", "addImport", "addCallAfterImport", "addCall",
                   "vite", "vitePrompt", "done"}
       \/ declined = "addScript"

\* C11: a module script is never the eligible block: for a layout holding a
\* module script and a closed instance script, in either order, the first
\* report carries the four offsets of the instance script, and at every point
\* of the run the module script's text is still in the layout unchanged (no
\* import and no createBay() call was inserted in its range).
C11_ModuleNeverEligible ==
    (run = 1 /\ Analysed /\ shape.mod # "none" /\ shape.script = "closed") =>
        LET start == InstanceStart(shape)
            body == ScriptBody(shape)
        IN  /\ analysis.hasScriptTag
            /\ analysis.scriptTagStart = start
            /\ analysis.scriptContentStart = start + 1
            /\ analysis.scriptContentEnd = start + 1 + Len(body)
            /\ analysis.scriptTagEnd = start + 2 + Len(body)
            /\ \E o \in 0..Len(layout.text) : OccursAt(ModuleScript, layout.text, o)

\* C12: degraded success of the config injector: on a vite.config without a
\* `plugins: [...]` list, addVitePlugin writes the config with the import
\* added and nothing else, does not fail, and what initCommand reports is not
\* what it reports when the import and the svelteBay() invocation were both
\* inserted.
C12_DegradedDistinct ==
    (run = 1 /\ viteKind = "noList" /\ viteWrites = 1) =>
        /\ pc = "done"
        /\ vite.text = WithViteImport(ViteConfig("noList"))
        /\ ~Test(vitePluginRegex, vite.text)
        /\ viteReport # "added"

\* no effect of a Pod is waiting to run
Settled == \A p \in PodIds : ~pods[p].dirty

\* how often the snippet of Pod p is in a list
Times(list, p) == Len(SelectSeq(list, LAMBDA q : q = p))

\* the Pods registered under `name`, in the order they registered
RegisteredTo(name) == SelectSeq(registered, LAMBDA q : pods[q].target = name)

\* C13: registry ordering without duplicates: the list of a portal name
\* holds exactly one snippet for each Pod registered under that name, in the
\* order the Pods registered, every mounted Pod whose effect has run is in
\* the list of its name once, and the Portal of that name renders the list
\* in that order.
C13_RegistryOrder ==
    \A n \in PortalNames :
        /\ content[n].list = RegisteredTo(n)
        /\ Render(n) = RegisteredTo(n)
        /\ \A p \in PodIds :
              (pods[p].mounted /\ ~pods[p].dirty /\ pods[p].to = n) =>
                  Times(content[n].list, p) = 1
        /\ \A p \in PodIds : Times(content[n].list, p) <= 1

C13_Witness ==
    /\ Settled
    /\ \A p \in PodIds : pods[p].mounted /\ pods[p].to = "X"
    /\ Render("X")[1] = MaxPods
    /\ Len(Render("X")) = MaxPods

\* C14: re-targeting a Pod: once the effects have run, a mounted Pod's
\* snippet is in the list of the name its `to` prop holds and in no other
\* list; in particular a Pod moved from X to Y has left the list of X.
C14_Retarget ==
    Settled =>
        \A p \in PodIds : pods[p].mounted =>
            \A n \in PortalNames :
                Times(content[n].list, p) = (IF n = pods[p].to THEN 1 ELSE 0)

C14_Witness ==
    /\ Settled
    /\ \E p \in PodIds :
          /\ pods[p].mounted
          /\ pods[p].from = "X" /\ pods[p].to = "Y"
          /\ content["X"].present

\* C15: portal isolation by name: whatever the Portal named n renders was
\* registered by a Pod under n, no Portal of another name renders it, and a
\* Portal under whose name no Pod is registered renders nothing.
C15_Isolation ==
    \A n \in PortalNames :
        /\ \A i \in 1..Len(Render(n)) :
              /\ pods[Render(n)[i]].target = n
              /\ \A m \in PortalNames \ {n} : Times(Render(m), Render(n)[i]) = 0
        /\ (\A p \in PodIds : pods[p].target # n) => Render(n) = << >>

C15_Witness ==
    /\ Settled
    /\ \E p, q \in PodIds :
          /\ pods[p].target = "X" /\ pods[q].target = "Y"
          /\ Render("X") = << p >> /\ Render("Y") = << q >>

\* C16: getBayState returns the state createBay stored in the context, whose
\* content map createBay left empty; without a createBay call in the tree it
\* throws 'Bay state not found. Make sure to call createBay() in your root
\* layout.' and returns nothing.
C16_BayState ==
    /\ [](/\ got.result = "state" => got.hadBay
          /\ got.result = "error" =>
                /\ ~got.hadBay
                /\ got.message = NotFoundMessage
          /\ got.result = "none" => got = NotCalled)
    /\ [][(~context /\ context') => content' = EmptyContent]_vars

C16_Witness ==
    /\ got.result = "state"
    /\ got.hadBay
    /\ context
    /\ content = EmptyContent

\* the first report says there is a script tag without an import of createBay
ImportMissing ==
    Analysed /\ analysis.hasScriptTag /\ ~analysis.hasCreateBayImport

\* C17: ordering rule of the driver: in a run where the import is missing,
\* nothing is written before the import edit; the report the call decision
\* uses is the one made from the layout as the import edit left it; and the
\* call, when that report has none, is spliced in at that report's
\* scriptContentEnd.  A call is added with the first report only when the
\* import was there.
C17_ImportBeforeCall ==
    /\ ImportMissing =>
          LET imp == addCreateBayImport(startLayout.text, analysis).content
              fresh == analyzeSvelteFile(imp)
          IN  /\ pc # "addCall"
              /\ pc = "addImport" => layout = startLayout /\ layoutWrites = 0
              /\ pc = "addCallAfterImport" =>
                    /\ layout.text = imp
                    /\ updatedAnalysis = fresh
                    /\ ~fresh.hasCreateBayCall
              /\ pc \in {"vite", "vitePrompt", "done"} =>
                    /\ updatedAnalysis = fresh
                    /\ layout.text =
                          IF fresh.hasCreateBayCall THEN imp
                          ELSE Slice(imp, 0, fresh.scriptContentEnd) \o NewCall
                               \o SliceFrom(imp, fresh.scriptContentEnd)
    /\ pc = "addCall" => analysis.hasCreateBayImport /\ layoutWrites = 0

C17_Witness ==
    /\ run = 1
    /\ ImportMissing
    /\ analysis.hasSvelteBayImport
    /\ pc = "done"
    /\ layoutWrites = 2

\* C18: report freshness: addCreateBayImport and addCreateBayCall are given
\* the report of the very text they read (what each writes is what it makes
\* of the layout with the analysis of that layout), no write lies between the
\* analysis and the mutation that uses it, and a report serves one mutation:
\* the first report is used before any write, the second after exactly one.
C18_FreshReport ==
    /\ [](/\ pc \in {"addImport", "addCall"} =>
                analysis = analyzeSvelteFile(layout.text) /\ layoutWrites = 0
          /\ pc = "addCallAfterImport" =>
                updatedAnalysis = analyzeSvelteFile(layout.text) /\ layoutWrites = 1
          /\ layoutWrites <= 2)
    /\ [][/\ pc = "addImport" =>
                layout'.text =
                    addCreateBayImport(layout.text, analyzeSvelteFile(layout.text)).content
          /\ pc \in {"addCall", "addCallAfterImport"} =>
                layout'.text =
                    addCreateBayCall(layout.text, analyzeSvelteFile(layout.text))]_vars

C18_Witness ==
    /\ run = 1
    /\ shape.script = "closed" /\ ~shape.imp /\ ~shape.call
    /\ pc = "vite"
    /\ layoutWrites = 2

\* C19: convergence postcondition: when a run returns normally with no prompt
\* aborted or declined, the analysis of the layout it leaves reports
\* hasScriptTag, hasCreateBayImport and hasCreateBayCall, whatever the layout
\* it started from.
C19_Converged ==
    (pc = "done" /\ declined = "none") =>
        AllSetUp(analyzeSvelteFile(layout.text))

\* the offsets of report a are those of a block inside a document of length n
WellFormed(a, n) ==
    /\ a.hasScriptTag =>
          /\ 0 <= a.scriptTagStart
          /\ a.scriptTagStart < a.scriptContentStart
          /\ a.scriptContentStart <= a.scriptContentEnd
          /\ a.scriptContentEnd < a.scriptTagEnd
          /\ a.scriptTagEnd <= n
    /\ a.hasSvelteBayImport =>
          /\ a.scriptContentStart <= a.svelteBayImportStart
          /\ a.svelteBayImportStart < a.svelteBayImportEnd
          /\ a.svelteBayImportEnd <= a.scriptContentEnd

\* C20: offset well-formedness: every report with hasScriptTag has
\* 0 <= scriptTagStart < scriptContentStart <= scriptContentEnd < scriptTagEnd
\* <= n for the document of length n it was made from, and with
\* hasSvelteBayImport the import range lies inside the content range; no
\* offset of such a report is -1.
C20_OffsetsWellFormed ==
    /\ WellFormed(analysis, Len(startLayout.text))
    /\ WellFormed(updatedAnalysis,
                  Len(addCreateBayImport(startLayout.text, analysis).content))

\* C21: no eligible block is a distinct case: a report without hasScriptTag
\* has every other fact false and every offset absent; in every report
\* hasCreateBayImport implies hasSvelteBayImport; and on such a first report
\* initCommand asks whether to add a script tag and either writes the new
\* block in front of the layout or exits without a write, never returning as
\* if the layout were set up.
C21_NoBlockIsDistinct ==
    /\ \A a \in {analysis, updatedAnalysis} :
          /\ ~a.hasScriptTag => a = EmptyAnalysis
          /\ a.hasCreateBayImport => a.hasSvelteBayImport
    /\ (Analysed /\ ~analysis.hasScriptTag) =>
          /\ pc \in {"scriptPrompt", "done", "exit0", "exit1"}
          /\ pc = "scriptPrompt" => layoutWrites = 0
          /\ pc = "done" =>
                /\ layoutWrites = 1
                /\ layout.text = BayScript \o startLayout.text
          /\ pc \in {"exit0", "exit1"} =>
                /\ declined = "addScript"
                /\ layout = startLayout

C21_Witness ==
    /\ run = 1
    /\ Analysed
    /\ ~analysis.hasScriptTag
    /\ shape.rest
    /\ pc = "done"
    /\ layoutWrites = 1

\* report a, made from text, is that of an instance script with its closing tag
OfClosedInstanceScript(a, text) ==
    /\ a.hasScriptTag
    /\ a.scriptContentEnd # -1
    /\ text[a.scriptTagStart + 1] = OpenScript
    /\ text[a.scriptContentEnd + 1] = CloseScript

\* the report initCommand hands to the mutation it is about to call
ReportInUse == IF pc = "addCallAfterImport" THEN updatedAnalysis ELSE analysis

FirstOnly(sh) == [sh EXCEPT !.imp2 = "none", !.script2 = "none"]

PluginsList(text) ==
    LET pluginsMatch == Match(pluginsRegex, text)
        pluginsStart == MatchAt(SubSeq(pluginsRegex, 1, 3), 1, text,
                                pluginsMatch.index)
    IN  Slice(text, pluginsStart, pluginsMatch.end - 1)

\* C25: the comma rule of the config injector: when addVitePlugin has written
\* a config that had a plugins list, the list holds what it held before,
\* followed by `, svelteBay()` when that was non-empty after trimming
\* whitespace and by `svelteBay()` alone when it was empty, whatever the
\* entries were (with or without parentheses, with or without a trailing
\* comma).
C25_CommaRule ==
    (/\ run = 1 /\ viteWrites = 1
     /\ Test(pluginsRegex, ViteConfig(viteKind))) =>
        LET old == PluginsList(ViteConfig(viteKind))
        IN  PluginsList(vite.text)
              = old \o (IF Trim(old) # << >> THEN << ",", SP >> ELSE << >>)
                    \o << "svelteBay", "(", ")" >>

\* C26: the config injector inserts each piece only if absent: when
\* addVitePlugin has written a config that had a plugins list, the config is
\* configured (isVitePluginConfigured), holds exactly one import of svelteBay
\* from 'svelte-bay/vite' and exactly one svelteBay() invocation, and
\* addVitePlugin applied to it once more gives the same text.
C26_InsertIfAbsent ==
    (/\ run = 1 /\ viteWrites = 1
     /\ Test(pluginsRegex, ViteConfig(viteKind))) =>
        /\ isVitePluginConfigured(vite.text)
        /\ Count(viteImportRegex, vite.text) = 1
        /\ Count(vitePluginRegex, vite.text) = 1
        /\ addVitePlugin(vite.text) = vite.text

\* C27 as stated: within one run the layout file is written at most once.
C27_SingleWrite == layoutWrites <= 1

\* C27, amended: within one run the layout file is written once per mutation
\* applied: never more than twice, not at all when the first report finds the
\* import and the call, and, for a layout whose first script is a closed
\* instance script, once for a missing createBay import plus once for a
\* missing createBay() call.
C27_WritePerMutation ==
    /\ layoutWrites <= 2
    /\ (Analysed /\ AllSetUp(analysis)) => layoutWrites = 0 /\ layout = startLayout
    /\ (/\ run = 1 /\ pc = "done" /\ declined # "addScript"
        /\ shape.script = "closed" /\ shape.mod # "before") =>
          layoutWrites = (IF shape.cb = "absent" THEN 1 ELSE 0)
                         + (IF shape.call THEN 0 ELSE 1)

C27_Witness ==
    /\ run = 1
    /\ pc = "done"
    /\ shape.script = "closed" /\ shape.mod = "none"
    /\ shape.cb = "absent" /\ ~shape.call
    /\ layoutWrites = 2
    /\ ~analysis.hasCreateBayImport /\ ~updatedAnalysis.hasCreateBayCall

\* lines 188-216 on a layout whose report is `a`: the text an uninterrupted
\* run leaves in the layout file
Converged(text, a) ==
    IF ~a.hasScriptTag \/ AllSetUp(a) THEN text
    ELSE IF a.hasCreateBayImport THEN addCreateBayCall(text, a)
    ELSE LET w == addCreateBayImport(text, a).content
             u == analyzeSvelteFile(w)
         IN  IF ~u.hasCreateBayCall THEN addCreateBayCall(w, u) ELSE w

\* C28: crash-resume equivalence: whenever the process is stopped between two
\* steps, the layout file holds the text the run started from or the whole
\* output of a mutation of it (the created layout, the added script tag, the
\* import write, the call write), and an uninterrupted run leaves the text
\* Converged gives; and when a run that was stopped after its import write is
\* followed by a run that returns normally, the layout that second run leaves
\* is the one an uninterrupted run on the original layout leaves.
C28_CrashResume ==
    LET s == startLayout.text
        a == analyzeSvelteFile(s)
        i == addCreateBayImport(s, a).content
        s0 == Document(shape)
        a0 == analyzeSvelteFile(s0)
        i0 == addCreateBayImport(s0, a0).content
    IN  /\ layout.text \in {s, createLayoutWithBay, addScriptTagWithBay(s), i,
                            addCreateBayCall(i, analyzeSvelteFile(i)),
                            addCreateBayCall(s, a)}
        /\ (pc = "done" /\ Analysed /\ declined # "addScript"
              /\ analysis.hasScriptTag) =>
              layout.text = Converged(s, a)
        /\ (/\ run = 2 /\ ~prevDone /\ pc = "done"
            /\ a0.hasScriptTag /\ ~a0.hasCreateBayImport
            /\ s = i0 /\ i0 # s0) =>
              layout.text = Converged(s0, a0)

\* the steps of initCommand before the package is known to be installed
BeforeInstalled == {"start", "pmPrompt", "installing"}

\* C29: install precedes every edit: a run that has written the layout file
\* or the vite config has found svelte-bay installed or has seen the install
\* command exit with code 0; nothing is written up to the end of the install
\* step; and a run that ends there (no SvelteKit root, the package manager
\* prompt cancelled, the install command failed) ends with both files as it
\* found them.
C29_InstallFirst ==
    /\ [](/\ (layoutWrites > 0 \/ viteWrites > 0) =>
                installed /\ pc \notin BeforeInstalled
          /\ pc \in BeforeInstalled =>
                layoutWrites = 0 /\ viteWrites = 0 /\ layout = startLayout
          /\ (pc \in {"exit0", "exit1"} /\ ~installed) =>
                layoutWrites = 0 /\ viteWrites = 0 /\ layout = startLayout)
    /\ [][/\ pc \in BeforeInstalled =>
                UNCHANGED << layout, vite, layoutWrites, viteWrites >>
          /\ (pc \in BeforeInstalled /\ pc' \notin BeforeInstalled) =>
                (pc' \in {"exit0", "exit1"} \/ (installed' /\ pc' = "findLayout"))]_vars

C29_Witness ==
    /\ run = 1
    /\ layoutWrites = 2 /\ viteWrites = 1
    /\ installed
    /\ pc = "done"

====
